---- MODULE Spec2Model ----
(***************************************************************************)
(* The tracker scripts of goblinsan/visual-flow (src/scripts/*.py) as one  *)
(* state machine.  A behaviour is one script run from its first statement  *)
(* to its end (normal end or uncaught exception), optionally followed by a *)
(* second run of the same script against the tracker the first run left.   *)
(* The issue tracker is the only persistent state; every external call     *)
(* (a `gh` process) has a nondeterministic outcome.                        *)
(***************************************************************************)
EXTENDS Integers, Sequences, FiniteSets, TLC

(* ------------------------------ bounds -------------------------------- *)
\* phases (epics) of the catalog / of phase_map that a run iterates over
NumPhases == 2
\* issues (children) taken from each phase
MaxIssues == 2
\* external calls of one behaviour whose outcome is not plain success
MaxFailures == 2

(* ------------------------- values and helpers ------------------------- *)
\* Python's None where a tracker number is expected (numbers start at 1;
\* `if not x` treats None and 0 alike)
None == 0

Min(a, b) == IF a < b THEN a ELSE b

Range(s) == {s[k] : k \in 1..Len(s)}

Take(s, n) == SubSeq(s, 1, Min(n, Len(s)))

Scripts == {"cmi", "cgi", "ce", "lg", "lc", "lh", "pop"}

\* outcome classes of one external process:
\*   ok       exit 0, well-formed response carrying the expected field
\*   err      non-zero exit, nothing changed in the tracker, empty stdout
\*   garbage  exit 0, the operation was applied, stdout is not JSON
\*   nofield  exit 0, the operation was applied, stdout is JSON without the
\*            field the caller reads
Outcomes == {"ok", "err", "garbage", "nofield"}

Phases == 0..(NumPhases - 1)

(* ------------------------------- state -------------------------------- *)
VARIABLES
  script,        \* the script being run
  run,           \* "first" or "second" run of it
  pc,            \* position in the script
  ph, ix, lb,    \* loop positions: phase, issue within phase, label (1-based)
  milestone_num, \* local: the phase's milestone number (m0..m5), or None
  epic_num,      \* local of main: the phase's epic number, or None
  num,           \* local: number parsed from the create response, or None
  ret,           \* value returned by the last create_issue / create_epic
  epics,         \* create_epics.epics: phase -> number or None, as built
  issue_ids,     \* link_issues_graphql.issue_ids: number -> global id
  body,          \* link_child_to_parent: the body read for the current child
  milestones,    \* tracker: phase title -> milestone number, None if absent
  issues,        \* tracker: issue number -> record
  calls,         \* external invocations so far, in order
  out,           \* lines printed so far (tags)
  fails,         \* external calls so far with an outcome other than ok
  snap           \* how the first run ended: tracker issues, failures, pc

vars == <<script, run, pc, ph, ix, lb, milestone_num, epic_num, num, ret, epics,
          issue_ids, body, milestones, issues, calls, out, fails, snap>>

(* ------------------------------ catalogs ------------------------------ *)
\* create_milestones_and_issues.py: len(PHASES[name]["issues"]) for the six
\* phases, in the order of the dict literal
PHASES_issues == <<4, 5, 5, 4, 5, 4>>

\* create_github_issues.py: the label arguments of the create_issue calls of
\* each phase block, in source order
cgi_labels ==
  << << <<"enhancement", "tech-debt", "priority-high">>,
        <<"enhancement", "data-integrity">>,
        <<"enhancement", "reliability">>,
        <<"tech-debt", "types">> >>,
     << <<"infrastructure", "priority-high">>,
        <<"api", "priority-high">>,
        <<"frontend", "priority-high">>,
        <<"api", "frontend">>,
        <<"auth", "infrastructure">> >>,
     << <<"infrastructure", "realtime", "priority-high">>,
        <<"realtime", "data">>,
        <<"frontend", "realtime">>,
        <<"frontend", "realtime">>,
        <<"frontend", "ux">> >>,
     << <<"realtime", "ux">>,
        <<"realtime", "ux">>,
        <<"api", "data-integrity">>,
        <<"performance", "realtime">> >>,
     << <<"api", "agents">>,
        <<"api", "agents">>,
        <<"frontend", "agents">>,
        <<"frontend", "agents">>,
        <<"auth", "agents">> >>,
     << <<"export", "api">>,
        <<"export", "api">>,
        <<"export", "api">>,
        <<"frontend", "export">> >> >>

\* the issues of phase p a run goes through: indices 0..n-1
cgi_issues(p) == 0..(Min(MaxIssues, Len(cgi_labels[p + 1])) - 1)

\* create_epics.py: the label arguments of the six create_epic calls
ce_labels ==
  << <<"epic", "phase-0">>, <<"epic", "phase-1">>, <<"epic", "phase-2">>,
     <<"epic", "phase-3">>, <<"epic", "phase-4">>, <<"epic", "phase-5">> >>

\* a phase_map in which issue 16 is listed under two epics
phase_map_values_overlap ==
  << <<12, 16, 14, 15>>,
     <<16, 17, 18, 19, 20>>,
     <<21, 22, 23, 24, 25>>,
     <<26, 27, 28, 29>>,
     <<30, 31, 32, 33, 34>>,
     <<35, 36, 37, 38>> >>

\* link_issues_graphql.py: phase_map, parent epic -> child issues, as the
\* keys and the values of the dict literal in source order
phase_map_keys == <<45, 46, 47, 48, 49, 50>>

phase_map_values ==
  << <<12, 13, 14, 15>>,
     <<16, 17, 18, 19, 20>>,
     <<21, 22, 23, 24, 25>>,
     <<26, 27, 28, 29>>,
     <<30, 31, 32, 33, 34>>,
     <<35, 36, 37, 38>> >>

\* link_child_to_parent.py: phase_map
lc_phase_map_keys == <<45, 46, 47, 48, 49, 50>>

lc_phase_map_values ==
  << <<12, 13, 14, 15>>,
     <<16, 17, 18, 19, 20>>,
     <<21, 22, 23, 24, 25>>,
     <<26, 27, 28, 29>>,
     <<30, 31, 32, 33, 34>>,
     <<35, 36, 37, 38>> >>

\* a phase_map whose first two children are listed in the other order
lh_phase_map_values_reordered ==
  << <<13, 12, 14, 15>>,
     <<16, 17, 18, 19, 20>>,
     <<21, 22, 23, 24, 25>>,
     <<26, 27, 28, 29>>,
     <<30, 31, 32, 33, 34>>,
     <<35, 36, 37, 38>> >>

\* link_issues_hierarchy.py: phase_map
lh_phase_map_keys == <<45, 46, 47, 48, 49, 50>>

lh_phase_map_values ==
  << <<12, 13, 14, 15>>,
     <<16, 17, 18, 19, 20>>,
     <<21, 22, 23, 24, 25>>,
     <<26, 27, 28, 29>>,
     <<30, 31, 32, 33, 34>>,
     <<35, 36, 37, 38>> >>

\* the phase_map literal of the script that is running
phase_map_items(s) ==
  CASE s = "lc" -> [keys |-> lc_phase_map_keys, values |-> lc_phase_map_values]
    [] s = "lh" -> [keys |-> lh_phase_map_keys, values |-> lh_phase_map_values]
    [] OTHER    -> [keys |-> phase_map_keys, values |-> phase_map_values]

\* the part of phase_map a run iterates over
EpicNum(p) == phase_map_items(script).keys[p + 1]

Children(p) == Take(phase_map_items(script).values[p + 1], MaxIssues)

ChildNum(p, i) == Children(p)[i + 1]

AllChildren == UNION {Range(Children(p)) : p \in Phases}

AllEpics == {EpicNum(p) : p \in Phases}

\* an ISSUE_DETAILS whose body for issue 16 names epic 45
ISSUE_DETAILS_epic_shifted ==
  [n \in 12..38 |->
     IF n <= 16 THEN 45 ELSE IF n <= 20 THEN 46 ELSE IF n <= 25 THEN 47
     ELSE IF n <= 29 THEN 48 ELSE IF n <= 34 THEN 49 ELSE 50]

\* populate_issue_descriptions.py: the epic named in the "**Parent Epic:** #"
\* line that ends ISSUE_DETAILS[n], for n = 12..38
ISSUE_DETAILS_epic ==
  [n \in 12..38 |->
     IF n <= 15 THEN 45 ELSE IF n <= 20 THEN 46 ELSE IF n <= 25 THEN 47
     ELSE IF n <= 29 THEN 48 ELSE IF n <= 34 THEN 49 ELSE 50]

\* names bound at module level when a script's functions run
ModuleGlobals(s) ==
  CASE s = "cmi" -> {"json", "subprocess", "Optional", "REPO_OWNER", "REPO_NAME", "PHASES"}
    [] s = "cgi" -> {"json", "subprocess", "REPO"}
    [] s = "ce"  -> {"json", "subprocess", "REPO"}
    [] OTHER     -> {"json", "subprocess", "REPO"}

\* outcomes an external call can still have under the failure bound
Possible == IF fails < MaxFailures THEN Outcomes ELSE {"ok"}

Count(o) == IF o = "ok" THEN fails ELSE fails + 1

\* the number the tracker gives the next created issue
NextNum == Cardinality(DOMAIN issues) + 1

Call(op, p, i, n, a, l) ==
  [op |-> op, ph |-> p, ix |-> i, num |-> n, arg |-> a, label |-> l]

Line(msg, p, n) == [msg |-> msg, ph |-> p, n |-> n]

Tok(k, a, b) == [k |-> k, a |-> a, b |-> b]

NewIssue(kind, p, i, text, ms) ==
  [kind |-> kind, ph |-> p, ix |-> i, body |-> text, milestone |-> ms,
   labels |-> {}, parent |-> None]

\* the tracker after a create call with outcome o: every exit-0 outcome has
\* created the entity
Created(o, rec) == IF o = "err" THEN issues ELSE issues @@ (NextNum :> rec)

\* the tracker after `gh issue edit <n> --add-label <l>` with outcome o
Labelled(o, n, l) ==
  IF o = "ok" /\ n \in DOMAIN issues
    THEN [issues EXCEPT ![n].labels = @ \cup {l}]
    ELSE issues

\* move to position pos, printing `lines`; reaching the end of the script
\* prints its final summary
Goto(pos, lines) ==
  /\ pc' = pos.pc /\ ph' = pos.ph /\ ix' = pos.ix
  /\ out' = out \o lines \o
            (IF pos.pc = "done" THEN <<Line("final summary", 0, 0)>> ELSE <<>>)

At(c, p, i) == [pc |-> c, ph |-> p, ix |-> i]

(* ---------------- create_milestones_and_issues.py (cmi) ---------------- *)
\* a function that reads the module-level name `name` raises NameError
\* when the module does not bind it
NameError(s, name) == name \notin ModuleGlobals(s)

\* create_milestone, create_epic and create_issue each build the argument
\* list of run_gh_command from REPO before anything is invoked, outside any
\* try block
cmi_create_milestone_raises == NameError("cmi", "REPO")

\* create_epic first evaluates the f-string of the epic body, which reads the
\* names milestone_num (its parameter) and issue_number (lines 734-735)
cmi_create_epic_raises ==
  NameError("cmi", "issue_number") \/ NameError("cmi", "REPO")

cmi_create_issue_raises == NameError("cmi", "REPO")

\* PHASES[...]["issues"]: the issues of phase p a run goes through
cmi_issues(p) == 0..(Min(MaxIssues, PHASES_issues[p + 1]) - 1)

\* PHASES[...]["issues"][i]: the labels of an issue; the entries have the
\* keys "title" and "body" only, and create_issue takes no labels
cmi_labels(p, i) == <<>>

\* what create_milestone / create_epic / create_issue return for the
\* outcome o of their one gh call that would give the entity number n:
\* run_gh_command turns a non-zero exit into None, `if output:` and the bare
\* except turn an empty or unparseable stdout into None, and a JSON object
\* without "number" gives None
cmi_parse(o, n) == IF o = "ok" THEN n ELSE None

\* for phase_name, phase_data in PHASES.items(): the next iteration
cmi_after_phase(p) ==
  IF p + 1 \in Phases THEN At("milestone", p + 1, 0) ELSE At("done", p, 0)

cmi_after_issue(p, i) ==
  IF i + 1 \in cmi_issues(p) THEN At("issue", p, i + 1) ELSE cmi_after_phase(p)

\* f"{body}\n\n---\n\nPart of Epic #{epic_num}"
full_body(b, e) == b \o <<Tok("\n\n---\n\n", 0, 0), Tok("Part of Epic #", e, 0)>>

\* main: the loop body, one external call per step
cmi_main ==
  /\ script = "cmi" /\ pc \in {"milestone", "epic", "issue"}
  /\ CASE pc = "milestone" ->
            \* milestone_num = create_milestone(...); if not milestone_num: continue
            IF cmi_create_milestone_raises
              THEN /\ Goto(At("crashed", ph, ix),
                           <<Line("Creating milestone", ph, 0),
                             Line("Traceback: NameError", ph, 0)>>)
                   /\ UNCHANGED <<milestone_num, epic_num, ret, milestones,
                                  issues, calls, fails>>
              ELSE \E o \in Possible :
                   LET n == Cardinality({q \in Phases : milestones[q] # None}) + 1
                       r == cmi_parse(o, n) IN
                   /\ fails' = Count(o)
                   /\ calls' = calls \o <<Call("create_milestone", ph, 0, None, None, "")>>
                   /\ milestones' = IF o = "err" THEN milestones
                                    ELSE [milestones EXCEPT ![ph] = n]
                   /\ milestone_num' = r
                   /\ IF r = None
                        THEN Goto(cmi_after_phase(ph),
                                  <<Line("Creating milestone", ph, 0),
                                    Line("Failed to create milestone", ph, 0)>>)
                        ELSE Goto(At("epic", ph, 0),
                                  <<Line("Creating milestone", ph, 0),
                                    Line("Created milestone", ph, r)>>)
                   /\ UNCHANGED <<epic_num, ret, issues>>
       [] pc = "epic" ->
            \* epic_num = create_epic(milestone_num, ...); if not epic_num: continue
            IF cmi_create_epic_raises
              THEN /\ Goto(At("crashed", ph, ix),
                           <<Line("Creating epic", ph, 0),
                             Line("Traceback: NameError", ph, 0)>>)
                   /\ UNCHANGED <<milestone_num, epic_num, ret, milestones,
                                  issues, calls, fails>>
              ELSE \E o \in Possible :
                   LET r == cmi_parse(o, NextNum) IN
                   /\ fails' = Count(o)
                   /\ calls' = calls \o <<Call("create_epic", ph, 0, None, milestone_num, "Epic")>>
                   /\ issues' = Created(o, [NewIssue("epic", ph, 0,
                                   <<Tok("epic_body", ph, milestone_num)>>, milestone_num)
                                   EXCEPT !.labels = {"Epic"}])
                   /\ epic_num' = r
                   /\ IF r = None
                        THEN Goto(cmi_after_phase(ph),
                                  <<Line("Creating epic", ph, 0),
                                    Line("Failed to create epic", ph, 0)>>)
                        ELSE Goto(At("issue", ph, 0),
                                  <<Line("Creating epic", ph, 0),
                                    Line("Created epic", ph, r)>>)
                   /\ UNCHANGED <<milestone_num, ret, milestones>>
       [] pc = "issue" ->
            \* issue_num = create_issue(milestone_num, epic_num, title, body)
            IF cmi_create_issue_raises
              THEN /\ Goto(At("crashed", ph, ix), <<Line("Traceback: NameError", ph, ix)>>)
                   /\ UNCHANGED <<milestone_num, epic_num, ret, milestones,
                                  issues, calls, fails>>
              ELSE \E o \in Possible :
                   LET r == cmi_parse(o, NextNum) IN
                   /\ fails' = Count(o)
                   /\ calls' = calls \o <<Call("create_issue", ph, ix, epic_num, milestone_num, "")>>
                   /\ issues' = Created(o, NewIssue("issue", ph, ix,
                                   full_body(<<Tok("catalog_body", ph, ix)>>, epic_num),
                                   milestone_num))
                   /\ ret' = r
                   /\ Goto(cmi_after_issue(ph, ix),
                           <<Line(IF r = None THEN "Failed to create issue"
                                              ELSE "Created issue", ph, ix)>>)
                   /\ UNCHANGED <<milestone_num, epic_num, milestones>>
  /\ UNCHANGED <<script, run, lb, num, epics, issue_ids, body, snap>>

(* -------------------- create_github_issues.py (cgi) -------------------- *)
\* the module-level blocks "Phase 0" .. "Phase 5", one after the other
cgi_after_phase(p) ==
  IF p + 1 \in Phases THEN At("milestone", p + 1, 0) ELSE At("done", p, 0)

\* a driver that starts the same create_issue again after a call that failed
cgi_after_issue_retry(p, i) ==
  IF fails' > fails THEN At("issue", p, i)
  ELSE IF i + 1 \in cgi_issues(p) THEN At("issue", p, i + 1) ELSE cgi_after_phase(p)

\* the create_issue calls inside one `if m:` block, one after the other
cgi_after_issue(p, i) ==
  IF i + 1 \in cgi_issues(p) THEN At("issue", p, i + 1) ELSE cgi_after_phase(p)

\* a milestone step that hands out a number without having found the title
cgi_create_milestone_guess(o, p) == p + 1

\* create_milestone: two listings of the same endpoint, the first with -q
\* filters and its output unused; the second one's stdout is parsed and the
\* number of the first milestone whose title equals the phase title returned;
\* any parse or lookup error is swallowed and None returned
cgi_create_milestone(o, p) ==
  IF o = "ok" THEN milestones[p] ELSE None

\* m<p> = create_milestone(...); if m<p>: ...
cgi_Milestone ==
  /\ script = "cgi" /\ pc = "milestone"
  /\ \E o \in Possible :
       LET m == cgi_create_milestone(o, ph) IN
       /\ fails' = Count(o)
       /\ calls' = calls \o <<Call("list_milestones", ph, 0, None, None, "-q"),
                              Call("list_milestones", ph, 0, None, None, "")>>
       /\ milestone_num' = m
       /\ IF m # None
            THEN Goto(At("issue", ph, 0), <<Line("Using existing milestone", ph, m)>>)
            ELSE Goto(cgi_after_phase(ph), <<>>)
  /\ UNCHANGED <<epic_num, issue_ids, body, script, run, lb, num, ret, epics, milestones, issues, snap>>

\* what create_issue has in `num` after the POST with outcome o, when it
\* gets as far as the label loop
cgi_parsed_number(o) == IF o = "ok" THEN NextNum ELSE None

\* create_issue: the POST and the parse of its response
cgi_Issue ==
  /\ script = "cgi" /\ pc = "issue"
  /\ \E o \in Possible :
       /\ fails' = Count(o)
       /\ calls' = calls \o <<Call("create_issue", ph, ix, None, milestone_num, "")>>
       /\ issues' = Created(o, NewIssue("issue", ph, ix,
                               <<Tok("catalog_body", ph, ix)>>, milestone_num))
       /\ CASE o = "err" ->
                 /\ ret' = None
                 /\ Goto(cgi_after_issue(ph, ix), <<Line("Error", ph, ix)>>)
                 /\ UNCHANGED <<num, lb>>
            [] o = "garbage" ->
                 /\ ret' = None
                 /\ Goto(cgi_after_issue(ph, ix), <<>>)
                 /\ UNCHANGED <<num, lb>>
            [] OTHER ->
                 /\ num' = cgi_parsed_number(o)
                 /\ lb' = 1
                 /\ Goto(At("label", ph, ix), <<Line("Issue #", ph, num')>>)
                 /\ UNCHANGED ret
  /\ UNCHANGED <<epic_num, issue_ids, body, script, run, milestone_num, epics, milestones, snap>>

\* a create_issue that reports failure when its last add-label call failed
cgi_create_issue_result_strict(n, labelOutcome) ==
  IF labelOutcome = "err" THEN None ELSE n

\* what create_issue returns once the label loop is over
cgi_create_issue_result(n, labelOutcome) == n

\* create_issue: one `gh issue edit <num> --add-label <label>` of the label
\* loop; after the last one the function returns num
cgi_Label ==
  /\ script = "cgi" /\ pc = "label"
  /\ \E o \in Possible \ {"garbage", "nofield"} :
       LET ls == cgi_labels[ph + 1][ix + 1] IN
       /\ fails' = Count(o)
       /\ calls' = calls \o <<Call("add_label", ph, ix, num, None, ls[lb])>>
       /\ issues' = Labelled(o, num, ls[lb])
       /\ IF lb < Len(ls)
            THEN /\ lb' = lb + 1
                 /\ UNCHANGED <<pc, ph, ix, out, ret>>
            ELSE /\ lb' = lb
                 /\ ret' = cgi_create_issue_result(num, o)
                 /\ Goto(cgi_after_issue(ph, ix), <<>>)
  /\ UNCHANGED <<epic_num, issue_ids, body, script, run, milestone_num, num, epics, milestones, snap>>

(* ------------------------- create_epics.py (ce) ------------------------ *)
\* a dict literal whose evaluation ends at the first create_epic that
\* returns None
ce_after_epic_stop(p) ==
  IF ret' = None THEN At("done", p, 0)
  ELSE IF p + 1 \in Phases THEN At("epic", p + 1, 0) ELSE At("done", p, 0)

\* the entries of the `epics` dict literal, evaluated in order 0..5
ce_after_epic(p) ==
  IF p + 1 \in Phases THEN At("epic", p + 1, 0) ELSE At("done", p, 0)

ce_parsed_number(o) == IF o = "ok" THEN NextNum ELSE None

\* create_epic: the POST and the parse of its response
ce_Epic ==
  /\ script = "ce" /\ pc = "epic"
  /\ \E o \in Possible :
       /\ fails' = Count(o)
       /\ calls' = calls \o <<Call("create_epic", ph, 0, None, None, "")>>
       /\ issues' = Created(o, NewIssue("epic", ph, 0,
                               <<Tok("epic_body", ph, 0)>>, None))
       /\ CASE o = "err" ->
                 /\ ret' = None
                 /\ epics' = [epics EXCEPT ![ph] = None]
                 /\ Goto(ce_after_epic(ph), <<Line("Error", ph, ph)>>)
                 /\ UNCHANGED <<num, lb>>
            [] o = "garbage" ->
                 /\ ret' = None
                 /\ epics' = [epics EXCEPT ![ph] = None]
                 /\ Goto(ce_after_epic(ph), <<Line("Parse error", ph, ph)>>)
                 /\ UNCHANGED <<num, lb>>
            [] OTHER ->
                 /\ num' = ce_parsed_number(o)
                 /\ lb' = 1
                 /\ Goto(At("label", ph, 0), <<Line("Epic #", ph, num')>>)
                 /\ UNCHANGED <<ret, epics>>
  /\ UNCHANGED <<epic_num, issue_ids, body, script, run, milestone_num, milestones, snap>>

\* what create_epic returns once the label loop is over
ce_create_epic_result(n, labelOutcome) == n

\* create_epic: one add-label call of the label loop; after the last one
\* the function returns num, which becomes the phase's entry of `epics`
ce_Label ==
  /\ script = "ce" /\ pc = "label"
  /\ \E o \in Possible \ {"garbage", "nofield"} :
       LET ls == ce_labels[ph + 1] IN
       /\ fails' = Count(o)
       /\ calls' = calls \o <<Call("add_label", ph, 0, num, None, ls[lb])>>
       /\ issues' = Labelled(o, num, ls[lb])
       /\ IF lb < Len(ls)
            THEN /\ lb' = lb + 1
                 /\ UNCHANGED <<pc, ph, ix, out, ret, epics>>
            ELSE /\ lb' = lb
                 /\ ret' = ce_create_epic_result(num, o)
                 /\ epics' = [epics EXCEPT ![ph] = ret']
                 /\ Goto(ce_after_epic(ph), <<>>)
  /\ UNCHANGED <<epic_num, issue_ids, body, script, run, milestone_num, num, milestones, snap>>

(* ---------------------- link_issues_graphql.py (lg) -------------------- *)
\* the tracker's global identifier of issue n, and Python's None for one
GlobalId(n) == <<n>>

NoId == <<>>

NumberOf(id) == id[1]

\* a lookup that makes up the id of an issue it does not hold
Get_guess(d, k) == GlobalId(k)

\* dict assignment d[k] = v
Put(d, k, v) == [x \in DOMAIN d \cup {k} |-> IF x = k THEN v ELSE d[x]]

\* dict.get(k): None when k is not a key
Get(d, k) == IF k \in DOMAIN d THEN d[k] ELSE NoId

\* get_issue_id: json.loads and the subscripts data["data"]["repository"]
\* ["issue"]["id"] run outside any try block whenever the exit code is 0
get_issue_id_raises(o) == o \in {"garbage", "nofield"}

get_issue_id(o, n) == IF o = "ok" THEN GlobalId(n) ELSE NoId

\* a link call with its two ids swapped
Linked_swapped(o, parent_id, sub_issue_id) ==
  IF o = "ok"
    THEN [issues EXCEPT ![NumberOf(parent_id)].parent = NumberOf(sub_issue_id)]
    ELSE issues

\* a link mutation sent without the replaceParent variable
replaceParent_absent == FALSE

\* link_sub_issue: "-F", "replaceParent=true"
replaceParent == TRUE

\* the tracker after addSubIssue(issueId, subIssueId, replaceParent) with
\* outcome o: the sub-issue gets the parent, which replaces another parent it
\* has only when replaceParent is set
Linked(o, parent_id, sub_issue_id) ==
  IF /\ o = "ok"
     /\ \/ replaceParent
        \/ issues[NumberOf(sub_issue_id)].parent \in {None, NumberOf(parent_id)}
    THEN [issues EXCEPT ![NumberOf(sub_issue_id)].parent = NumberOf(parent_id)]
    ELSE issues

\* link_sub_issue returns (returncode == 0, stderr)
link_sub_issue(o) == o # "err"

\* the children of all epics, epic after epic
after_child(c, p, i) ==
  IF i + 1 < Len(Children(p)) THEN At(c, p, i + 1)
  ELSE IF p + 1 \in Phases THEN At(c, p + 1, 0)
  ELSE At("done", p, i)

\* for epic_num in phase_map.keys(): issue_ids[epic_num] = get_issue_id(epic_num)
lg_LookupEpic ==
  /\ script = "lg" /\ pc = "lookup_epic"
  /\ \E o \in Possible :
       /\ fails' = Count(o)
       /\ calls' = calls \o <<Call("get_issue_id", ph, 0, EpicNum(ph), None, "")>>
       /\ IF get_issue_id_raises(o)
            THEN /\ Goto(At("crashed", ph, ix), <<Line("Traceback", ph, EpicNum(ph))>>)
                 /\ UNCHANGED issue_ids
            ELSE /\ issue_ids' = Put(issue_ids, EpicNum(ph), get_issue_id(o, EpicNum(ph)))
                 /\ Goto(IF ph + 1 \in Phases THEN At("lookup_epic", ph + 1, 0)
                                              ELSE At("lookup_child", 0, 0),
                         <<Line("Epic #", ph, EpicNum(ph))>>)
  /\ UNCHANGED <<epic_num, script, run, lb, milestone_num, num, ret, epics, body,
                 milestones, issues, snap>>

\* a resolution loop that is left after its first child
lg_after_lookup_early(p, i) == At("link_epic", 0, 0)

\* the next child of the resolution loop; after the last one the linking
\* loop starts
lg_after_lookup(p, i) ==
  IF i + 1 < Len(Children(p)) THEN At("lookup_child", p, i + 1)
  ELSE IF p + 1 \in Phases THEN At("lookup_child", p + 1, 0)
  ELSE At("link_epic", 0, 0)

\* for child_nums in phase_map.values(): for child_num in child_nums:
\*     if child_num not in issue_ids: issue_ids[child_num] = get_issue_id(child_num)
lg_LookupChild ==
  /\ script = "lg" /\ pc = "lookup_child"
  /\ LET n == ChildNum(ph, ix) IN
     IF n \in DOMAIN issue_ids
       THEN /\ Goto(lg_after_lookup(ph, ix), <<>>)
            /\ UNCHANGED <<issue_ids, calls, fails>>
       ELSE \E o \in Possible :
            /\ fails' = Count(o)
            /\ calls' = calls \o <<Call("get_issue_id", ph, ix, n, None, "")>>
            /\ IF get_issue_id_raises(o)
                 THEN /\ Goto(At("crashed", ph, ix), <<Line("Traceback", ph, n)>>)
                      /\ UNCHANGED issue_ids
                 ELSE /\ issue_ids' = Put(issue_ids, n, get_issue_id(o, n))
                      /\ Goto(lg_after_lookup(ph, ix), <<>>)
  /\ UNCHANGED <<epic_num, script, run, lb, milestone_num, num, ret, epics, body,
                 milestones, issues, snap>>

\* head of the linking loop: parent_id = issue_ids.get(epic_num);
\* if not parent_id: print; continue
lg_LinkEpic ==
  /\ script = "lg" /\ pc = "link_epic"
  /\ IF Get(issue_ids, EpicNum(ph)) = NoId
       THEN Goto(IF ph + 1 \in Phases THEN At("link_epic", ph + 1, 0)
                                      ELSE At("done", ph, 0),
                 <<Line("Could not get ID for epic #", ph, EpicNum(ph))>>)
       ELSE Goto(At("link_child", ph, 0), <<Line("Linking to epic #", ph, EpicNum(ph))>>)
  /\ UNCHANGED <<epic_num, script, run, lb, milestone_num, num, ret, epics, issue_ids, body,
                 milestones, issues, calls, fails, snap>>

lg_after_link(p, i) ==
  IF i + 1 < Len(Children(p)) THEN At("link_child", p, i + 1)
  ELSE IF p + 1 \in Phases THEN At("link_epic", p + 1, 0)
  ELSE At("done", p, i)

\* body of the inner linking loop: child_id = issue_ids.get(child_num);
\* if not child_id: print; continue; else link_sub_issue(parent_id, child_id)
lg_LinkChild ==
  /\ script = "lg" /\ pc = "link_child"
  /\ LET n == ChildNum(ph, ix)
         parent_id == Get(issue_ids, EpicNum(ph))
         child_id == Get(issue_ids, n) IN
     IF child_id = NoId
       THEN /\ Goto(lg_after_link(ph, ix), <<Line("Could not get ID for issue #", ph, n)>>)
            /\ UNCHANGED <<issues, calls, fails>>
       ELSE \E o \in Possible \ {"garbage", "nofield"} :
            /\ fails' = Count(o)
            /\ calls' = calls \o <<Call("addSubIssue", ph, ix, n, EpicNum(ph),
                                   IF replaceParent THEN "replaceParent=true" ELSE "")>>
            /\ issues' = Linked(o, parent_id, child_id)
            /\ Goto(lg_after_link(ph, ix),
                    <<Line(IF link_sub_issue(o) THEN "Linked" ELSE "ERROR linking", ph, n)>>)
  /\ UNCHANGED <<epic_num, script, run, lb, milestone_num, num, ret, epics, issue_ids, body,
                 milestones, snap>>

(* ---------------------- link_child_to_parent.py (lc) ------------------- *)
\* Python's empty string as a body
EmptyBody == <<>>

\* get_issue_body: json.loads and data.get run outside any try block
\* whenever the exit code is 0
get_issue_body_raises(o) == o = "garbage"

\* get_issue_body: the body on success; "" after a non-zero exit and when the
\* JSON object has no "body"
get_issue_body(o, n) == IF o = "ok" THEN issues[n].body ELSE EmptyBody

\* update_issue_body: new_body = f"**Parent Epic:** #{parent_epic}\n\n{body}"
new_body(parent_epic, b) ==
  <<Tok("**Parent Epic:** #", parent_epic, 0), Tok("\n\n", 0, 0)>> \o b

\* the tracker after an edit of issue n's body with outcome o
Edited(o, n, b) ==
  IF o = "ok" THEN [issues EXCEPT ![n].body = b] ELSE issues

\* body = get_issue_body(issue_num)
lc_Read ==
  /\ script = "lc" /\ pc = "read"
  /\ \E o \in Possible :
       /\ fails' = Count(o)
       /\ calls' = calls \o <<Call("view_body", ph, ix, ChildNum(ph, ix), None, "")>>
       /\ IF get_issue_body_raises(o)
            THEN /\ Goto(At("crashed", ph, ix), <<Line("Traceback", ph, ChildNum(ph, ix))>>)
                 /\ UNCHANGED body
            ELSE /\ body' = get_issue_body(o, ChildNum(ph, ix))
                 /\ Goto(At("edit", ph, ix), <<>>)
  /\ UNCHANGED <<epic_num, script, run, lb, milestone_num, num, ret, epics, issue_ids,
                 milestones, issues, snap>>

\* update_issue_body(issue_num, epic_num, body)
lc_Edit ==
  /\ script = "lc" /\ pc = "edit"
  /\ \E o \in Possible \ {"garbage", "nofield"} :
       LET n == ChildNum(ph, ix) IN
       /\ fails' = Count(o)
       /\ calls' = calls \o <<Call("edit_body", ph, ix, n, EpicNum(ph), "")>>
       /\ issues' = Edited(o, n, new_body(EpicNum(ph), body))
       /\ Goto(after_child("read", ph, ix),
               <<Line(IF o = "ok" THEN "Updated" ELSE "ERROR updating", ph, n)>>)
  /\ UNCHANGED <<epic_num, script, run, lb, milestone_num, num, ret, epics, issue_ids, body,
                 milestones, snap>>

(* --------------------- link_issues_hierarchy.py (lh) ------------------- *)
\* the tracker after PATCH /issues/<child> parent_issue_url=<url of epic>
\* with outcome o
Patched(o, child, epic) ==
  IF o = "ok" THEN [issues EXCEPT ![child].parent = epic] ELSE issues

\* body of the inner loop: one PATCH per child, its exit code only printed
lh_Patch ==
  /\ script = "lh" /\ pc = "patch"
  /\ \E o \in Possible \ {"garbage", "nofield"} :
       LET n == ChildNum(ph, ix) IN
       /\ fails' = Count(o)
       /\ calls' = calls \o <<Call("patch_parent", ph, ix, n, EpicNum(ph), "")>>
       /\ issues' = Patched(o, n, EpicNum(ph))
       /\ Goto(after_child("patch", ph, ix),
               <<Line(IF o = "ok" THEN "Linked" ELSE "ERROR linking", ph, n)>>)
  /\ UNCHANGED <<epic_num, script, run, lb, milestone_num, num, ret, epics, issue_ids, body,
                 milestones, snap>>

(* ------------------ populate_issue_descriptions.py (pop) ---------------- *)
\* the body literal ISSUE_DETAILS[n]
ISSUE_DETAILS(n) ==
  <<Tok("details", n, 0), Tok("**Parent Epic:** #", ISSUE_DETAILS_epic[n], 0)>>

\* for issue_num in sorted(ISSUE_DETAILS.keys()): update_issue_body(...)
pop_Update ==
  /\ script = "pop" /\ pc = "update"
  /\ \E o \in Possible \ {"garbage", "nofield"} :
       LET n == ChildNum(ph, ix) IN
       /\ fails' = Count(o)
       /\ calls' = calls \o <<Call("patch_body", ph, ix, n, None, "")>>
       /\ issues' = Edited(o, n, ISSUE_DETAILS(n))
       /\ Goto(after_child("update", ph, ix),
               <<Line(IF o = "ok" THEN "Updated" ELSE "Error updating", ph, n)>>)
  /\ UNCHANGED <<epic_num, script, run, lb, milestone_num, num, ret, epics, issue_ids, body,
                 milestones, snap>>

(* --------------------------- a second run ------------------------------ *)
\* the first position of a script, after its opening prints
FirstPc(s) ==
  CASE s = "cmi" -> "milestone"
    [] s = "cgi" -> "milestone"
    [] s = "ce"  -> "epic"
    [] s = "lg"  -> "lookup_epic"
    [] s = "lc"  -> "read"
    [] s = "lh"  -> "patch"
    [] s = "pop" -> "update"

Ended == pc \in {"done", "crashed"}

\* the scripts run a second time
RerunScripts == {"cmi", "lg", "lc"}

\* the process has ended and the same script is started again; only the
\* tracker carries over (snap, fails are bookkeeping of the model)
Rerun ==
  /\ Ended /\ run = "first" /\ script \in RerunScripts
  /\ run' = "second"
  /\ snap' = [issues |-> issues, fails |-> fails, pc |-> pc]
  /\ pc' = FirstPc(script)
  /\ ph' = 0 /\ ix' = 0 /\ lb' = 1
  /\ milestone_num' = None /\ epic_num' = None /\ num' = None /\ ret' = None
  /\ epics' = [p \in Phases |-> None]
  /\ issue_ids' = <<>> /\ body' = <<>>
  /\ out' = <<>> /\ calls' = <<>>
  /\ UNCHANGED <<script, milestones, issues, fails>>

(* ------------------------------ the system ----------------------------- *)
\* milestone numbers the tracker may hold for the phase titles: every
\* phase has one, or exactly one phase has none
MilestoneStates ==
  {[p \in Phases |-> p + 1]} \cup
  {[p \in Phases |-> IF p = q THEN None ELSE p + 1] : q \in Phases}

\* the issues the linking scripts expect in the tracker: the epics and
\* children of phase_map, every child without a parent or every child under
\* some other issue
ExistingIssues(stale) ==
  [n \in AllEpics \cup AllChildren |->
     IF n \in AllEpics
       THEN NewIssue("epic", CHOOSE p \in Phases : EpicNum(p) = n, 0,
                     <<Tok("epic_body", n, 0)>>, None)
       ELSE LET p == CHOOSE q \in Phases : n \in Range(Children(q)) IN
            [NewIssue("issue", p, 0, <<Tok("original_body", n, 0)>>, None)
               EXCEPT !.parent = IF stale THEN EpicNum((p + 1) % NumPhases) ELSE None]]

Init ==
  /\ script \in Scripts
  /\ run = "first"
  /\ pc = FirstPc(script)
  /\ ph = 0 /\ ix = 0 /\ lb = 1
  /\ milestone_num = None /\ epic_num = None /\ num = None /\ ret = None
  /\ epics = [p \in Phases |-> None]
  /\ issue_ids = <<>> /\ body = <<>>
  /\ milestones \in (IF script = "cgi" THEN MilestoneStates
                     ELSE {[p \in Phases |-> None]})
  /\ issues \in (IF script \in {"lg", "lc", "lh", "pop"}
                 THEN {ExistingIssues(FALSE), ExistingIssues(TRUE)}
                 ELSE {<<>>})
  /\ calls = <<>>
  /\ out = <<>>
  /\ fails = 0
  /\ snap = [issues |-> <<>>, fails |-> 0, pc |-> "none"]

Next ==
  \/ cmi_main
  \/ cgi_Milestone
  \/ cgi_Issue
  \/ cgi_Label
  \/ ce_Epic
  \/ ce_Label
  \/ lg_LookupEpic
  \/ lg_LookupChild
  \/ lg_LinkEpic
  \/ lg_LinkChild
  \/ lc_Read
  \/ lc_Edit
  \/ lh_Patch
  \/ pop_Update
  \/ Rerun

Spec == Init /\ [][Next]_vars

(* ------------------------------- claims -------------------------------- *)
CallsOf(op, p) == {k \in 1..Len(calls) : calls[k].op = op /\ calls[k].ph = p}

CallsFor(op, p, i) == {k \in CallsOf(op, p) : calls[k].ix = i}

Printed(msg, p) == \E k \in 1..Len(out) : out[k].msg = msg /\ out[k].ph = p

LastCall == calls[Len(calls)]

\* the milestone step of phase p has been taken / has given the driver an id
MilestoneStepTaken(p) ==
  IF script = "cgi" THEN CallsOf("list_milestones", p) # {}
                    ELSE Printed("Creating milestone", p)

MilestoneIdObtained(p) ==
  Printed("Using existing milestone", p) \/ Printed("Created milestone", p)

\* phase q got what a phase gets: its milestone step and, with a milestone
\* id, its create calls
PhaseProcessed(q) ==
  /\ MilestoneStepTaken(q)
  /\ MilestoneIdObtained(q) =>
       IF script = "cgi"
         THEN \A i \in cgi_issues(q) : CallsFor("create_issue", q, i) # {}
         ELSE CallsOf("create_epic", q) # {}

\* C1: when a creation script (create_milestones_and_issues,
\* create_github_issues) has ended, every phase whose milestone step yielded
\* no id has no epic-create and no issue-create call, and every other phase
\* was processed: the run was not aborted.
C1_MilestoneFailureSkipsOnlyItsPhase ==
  (script \in {"cmi", "cgi"} /\ Ended) =>
    \A p \in Phases :
      (MilestoneStepTaken(p) /\ ~MilestoneIdObtained(p)) =>
        /\ CallsOf("create_epic", p) = {}
        /\ CallsOf("create_issue", p) = {}
        /\ \A q \in Phases \ {p} : PhaseProcessed(q)

\* C2: when main of create_milestones_and_issues has ended, a phase for
\* which no epic id was obtained has no issue-create call, and every later
\* phase still got its milestone call.
C2_EpicFailureSkipsOnlyItsIssues ==
  (script = "cmi" /\ Ended) =>
    \A p \in Phases :
      ~Printed("Created epic", p) =>
        /\ CallsOf("create_issue", p) = {}
        /\ \A q \in Phases : q > p => CallsOf("create_milestone", q) # {}

\* the labels passed to the create_issue / create_epic call that call c
\* belongs to
ItemLabels(c) ==
  IF script = "cgi" THEN cgi_labels[c.ph + 1][c.ix + 1] ELSE ce_labels[c.ph + 1]

\* create_issue (create_github_issues) or create_epic (create_epics) has
\* just returned from its label loop
ReturnedAfterLabels ==
  /\ script \in {"cgi", "ce"}
  /\ pc # "label"
  /\ calls # <<>>
  /\ LastCall.op = "add_label"

\* C3: when create_issue / create_epic returns after its label loop, it
\* returns the number parsed from the create response, which is the number
\* the tracker gave the entity just created, whatever the add-label calls
\* did.
C3_LabelFailureKeepsResult ==
  ReturnedAfterLabels =>
    /\ ret = LastCall.num
    /\ LastCall.num # None =>
         /\ ret = Cardinality(DOMAIN issues)
         /\ issues[ret].ph = LastCall.ph
         /\ issues[ret].ix = LastCall.ix

\* a create that succeeded, followed by a label loop in which a label was
\* not applied, and the number returned all the same
C3_Witness ==
  /\ ReturnedAfterLabels
  /\ ret # None
  /\ issues[ret].labels # Range(ItemLabels(LastCall))

\* the parent/child relation of the tracker
Parents(f) == [n \in DOMAIN f |-> f[n].parent]

ExitStatus == IF pc = "crashed" THEN 1 ELSE 0

\* C5: every script, whatever its external calls do, ends by printing its
\* final summary line, without an uncaught exception and with exit status 0.
C5_EveryScriptRunsToItsSummary ==
  Ended =>
    /\ pc = "done"
    /\ ExitStatus = 0
    /\ out # <<>> /\ out[Len(out)].msg = "final summary"

\* C6: after a creation pass of create_milestones_and_issues in which no call
\* failed, every issue of the catalog exists with a body that contains
\* "Parent Epic: #<n>", n the number of its phase's epic, and is a linked
\* child of that epic.
C6_ChildBodiesNameParentEpic ==
  (script = "cmi" /\ run = "first" /\ Ended /\ fails = 0) =>
    \A p \in Phases : \A i \in cmi_issues(p) :
      \E n \in DOMAIN issues : \E e \in DOMAIN issues :
        /\ issues[e].kind = "epic" /\ issues[e].ph = p
        /\ issues[n].kind = "issue" /\ issues[n].ph = p /\ issues[n].ix = i
        /\ Tok("Parent Epic: #", e, 0) \in Range(issues[n].body)
        /\ issues[n].parent = e

\* the (epic, child) pairs of phase_map after pair (p, i), in map order
Later(p, i) ==
  {pr \in Phases \X (0..(MaxIssues - 1)) :
     /\ pr[2] < Len(Children(pr[1]))
     /\ pr[1] > p \/ (pr[1] = p /\ pr[2] > i)}

\* the link or edit call of a linking script
LinkOp ==
  CASE script = "lg" -> "addSubIssue"
    [] script = "lc" -> "edit_body"
    [] OTHER         -> "patch_parent"

LinkFailed(p, i) ==
  \E k \in 1..Len(out) :
    /\ out[k].msg \in {"ERROR linking", "ERROR updating"}
    /\ out[k].ph = p /\ out[k].n = ChildNum(p, i)

\* C8: in a linking script that has ended, after a failed link or edit call
\* for one child every later child of the map was processed (its link or
\* edit call issued, or, in link_issues_graphql, skipped for an unresolved
\* id) and the final line was printed.
C8_LinkFailureDoesNotStopThePass ==
  (script \in {"lg", "lc", "lh"} /\ Ended) =>
    \A p \in Phases : \A i \in 0..(Len(Children(p)) - 1) :
      LinkFailed(p, i) =>
        /\ pc = "done"
        /\ \A pr \in Later(p, i) :
             \/ CallsFor(LinkOp, pr[1], pr[2]) # {}
             \/ /\ script = "lg"
                /\ \/ Get(issue_ids, EpicNum(pr[1])) = NoId
                   \/ Get(issue_ids, ChildNum(pr[1], pr[2])) = NoId

\* C9: when main of create_milestones_and_issues has ended, every issue of
\* every phase whose milestone and epic were not reported as failed has been
\* attempted, whatever happened to its siblings, and only create calls were
\* issued (nothing is deleted or edited).
C9_IssueFailureKeepsSiblings ==
  (script = "cmi" /\ Ended) =>
    /\ \A p \in Phases :
         (~Printed("Failed to create milestone", p) /\ ~Printed("Failed to create epic", p)) =>
           \A i \in cmi_issues(p) : CallsFor("create_issue", p, i) # {}
    /\ \A k \in 1..Len(calls) :
         calls[k].op \in {"create_milestone", "create_epic", "create_issue"}

\* C10: get_issue_id never raises: link_issues_graphql never ends in an
\* uncaught exception, and when it has ended every pair whose two ids were
\* resolved has had its link call.
C10_LookupNeverRaises ==
  script = "lg" =>
    /\ pc # "crashed"
    /\ Ended =>
         \A p \in Phases : \A i \in 0..(Len(Children(p)) - 1) :
           (Get(issue_ids, EpicNum(p)) # NoId /\ Get(issue_ids, ChildNum(p, i)) # NoId)
             => CallsFor("addSubIssue", p, i) # {}

\* the issues of the tracker that stand for entity (kind, p, i) of the catalog
Copies(kind, p, i) ==
  {n \in DOMAIN issues :
     issues[n].kind = kind /\ issues[n].ph = p /\ issues[n].ix = i}

\* C11: when create_milestones_and_issues has been run twice against the
\* same tracker and no call failed, the second run has issued a create call
\* for every milestone, epic and issue of the catalog again, and the tracker
\* holds every epic and every issue twice.
C11_SecondRunCreatesEverythingAgain ==
  (script = "cmi" /\ run = "second" /\ Ended /\ fails = 0) =>
    \A p \in Phases :
      /\ Cardinality(CallsOf("create_milestone", p)) = 1
      /\ Cardinality(CallsOf("create_epic", p)) = 1
      /\ Cardinality(Copies("epic", p, 0)) = 2
      /\ \A i \in cmi_issues(p) :
           /\ Cardinality(CallsFor("create_issue", p, i)) = 1
           /\ Cardinality(Copies("issue", p, i)) = 2

\* the operations of the external tool that the scripts invoke, by effect
CreateOps == {"create_milestone", "create_epic", "create_issue"}

LabelOps == {"add_label"}

\* a body rewrite, or the setting of the parent relation
RewriteOps == {"edit_body", "patch_body", "addSubIssue", "patch_parent"}

ReadOps == {"list_milestones", "get_issue_id", "view_body"}

\* the positions (phase, index within the phase) of the catalog entities
Entities == Phases \X (0..(MaxIssues - 1))

\* the calls of this run with an operation of S on entity (p, i)
CallsIn(S, p, i) ==
  {k \in 1..Len(calls) : calls[k].op \in S /\ calls[k].ph = p /\ calls[k].ix = i}

\* no call deletes, closes or re-creates: every call creates once, adds a
\* label, rewrites a body or parent, or only reads
OnlyKnownOps ==
  \A k \in 1..Len(calls) :
    calls[k].op \in CreateOps \cup LabelOps \cup RewriteOps \cup ReadOps

CreatedAtMostOnce(p, i) ==
  \A op \in CreateOps : Cardinality(CallsFor(op, p, i)) <= 1

\* C12 as stated: within one run, every entity has at most one create call
\* and at most one modifying call (label addition, body rewrite or link)
\* after it, and no other modifying call exists.
C12_CreatedOnceModifiedOnce ==
  /\ OnlyKnownOps
  /\ \A e \in Entities :
       /\ CreatedAtMostOnce(e[1], e[2])
       /\ Cardinality(CallsIn(LabelOps \cup RewriteOps, e[1], e[2])) <= 1

\* calls c and d, made for the same entity, create it twice, rewrite it
\* twice or add the same label twice
RepeatedOn(c, d) ==
  \/ c.op \in CreateOps /\ d.op = c.op
  \/ c.op \in RewriteOps /\ d.op \in RewriteOps
  \/ c.op \in LabelOps /\ d.op \in LabelOps /\ d.label = c.label

\* C12 amended: within one run, every entity has at most one create call, at
\* most one body-rewrite or link call, and one label-addition call for each
\* of its labels at most; no call deletes or re-creates anything.
C12_CreatedOnceLabelledPerLabel ==
  \A j \in 1..Len(calls) :
    /\ calls[j].op \in CreateOps \cup LabelOps \cup RewriteOps \cup ReadOps
    /\ calls[j].op \in LabelOps => calls[j].label \in Range(ItemLabels(calls[j]))
    /\ \A k \in 1..(j - 1) :
         (calls[k].ph = calls[j].ph /\ calls[k].ix = calls[j].ix) =>
           ~ RepeatedOn(calls[k], calls[j])

\* create_github_issues has ended and one of its issues was created by one
\* call and then labelled by two or more calls
C12_Witness ==
  /\ script = "cgi" /\ pc = "done"
  /\ \E e \in Entities :
       /\ Cardinality(CallsFor("create_issue", e[1], e[2])) = 1
       /\ Cardinality(CallsIn(LabelOps, e[1], e[2])) >= 2
       /\ \E n \in Copies("issue", e[1], e[2]) :
            issues[n].labels = Range(cgi_labels[e[1] + 1][e[2] + 1])

\* C13: after a run of create_milestones_and_issues in which no call failed,
\* every issue of the catalog exists with the reference to its phase's epic
\* as the last part of its body, and each of its labels was applied by a
\* call of its own issued after the create call.
C13_IssueCreatedThenLabelled ==
  (script = "cmi" /\ run = "first" /\ Ended /\ fails = 0) =>
    \A p \in Phases : \A i \in cmi_issues(p) :
      \E n \in Copies("issue", p, i) : \E e \in Copies("epic", p, 0) :
        /\ issues[n].body # <<>>
        /\ issues[n].body[Len(issues[n].body)] = Tok("Part of Epic #", e, 0)
        /\ \A l \in Range(cmi_labels(p, i)) :
             \E c \in CallsFor("create_issue", p, i) :
               \E k \in CallsFor("add_label", p, i) :
                 calls[k].label = l /\ calls[k].num = n /\ k > c

\* the place of a create call in one phase iteration of main
StepRank(op) ==
  CASE op = "create_milestone" -> 1
    [] op = "create_epic"      -> 2
    [] OTHER                   -> 3

\* call j comes after call k in catalog order
InCatalogOrder(k, j) ==
  \/ calls[k].ph < calls[j].ph
  \/ /\ calls[k].ph = calls[j].ph
     /\ \/ StepRank(calls[k].op) < StepRank(calls[j].op)
        \/ /\ StepRank(calls[k].op) = 3 /\ StepRank(calls[j].op) = 3
           /\ calls[k].ix < calls[j].ix

PrintedWith(msg, p, n) == \E k \in 1..Len(out) : out[k] = Line(msg, p, n)

\* C14: in main of create_milestones_and_issues the calls are issued phase by
\* phase in catalog order, milestone before epic before the issues; every
\* epic call carries the milestone number, and every issue call the milestone
\* and epic numbers, reported as created for the same phase; and in a run
\* without a failed call every phase is handled this way.
C14_CallsInOrderWithOwnIds ==
  script = "cmi" =>
    /\ \A k \in 1..Len(calls) : \A j \in 1..Len(calls) :
         k < j => InCatalogOrder(k, j)
    /\ \A k \in 1..Len(calls) :
         /\ calls[k].op = "create_epic" =>
              PrintedWith("Created milestone", calls[k].ph, calls[k].arg)
         /\ calls[k].op = "create_issue" =>
              /\ PrintedWith("Created milestone", calls[k].ph, calls[k].arg)
              /\ PrintedWith("Created epic", calls[k].ph, calls[k].num)
    /\ (Ended /\ fails = 0) =>
         \A p \in Phases :
           /\ CallsOf("create_milestone", p) # {}
           /\ CallsOf("create_epic", p) # {}
           /\ \A i \in cmi_issues(p) : CallsFor("create_issue", p, i) # {}

\* C15: when main of create_milestones_and_issues has ended, every milestone
\* or epic step that gave the driver no id, whether the call exited non-zero
\* or exited zero with an empty or unparseable output that left the entity in
\* the tracker, was reported as failed and has no dependent call, and the
\* driver went on to the end of the catalog.
C15_SoftFailureSkipsLikeHardFailure ==
  (script = "cmi" /\ Ended) =>
    /\ pc = "done"
    /\ \A p \in Phases :
         /\ (Printed("Creating milestone", p) /\ ~Printed("Created milestone", p)) =>
              /\ Printed("Failed to create milestone", p)
              /\ CallsOf("create_epic", p) = {} /\ CallsOf("create_issue", p) = {}
         /\ (Printed("Creating epic", p) /\ ~Printed("Created epic", p)) =>
              /\ Printed("Failed to create epic", p)
              /\ CallsOf("create_issue", p) = {}

\* C16: every link mutation of link_issues_graphql carries replaceParent=true,
\* and a child whose link call of this run succeeded has the epic it is
\* listed under in phase_map as its parent, whatever parent it had before.
C16_LinkReplacesParent ==
  script = "lg" =>
    /\ \A k \in 1..Len(calls) :
         calls[k].op = "addSubIssue" => calls[k].label = "replaceParent=true"
    /\ \A p \in Phases : \A i \in 0..(Len(Children(p)) - 1) :
         PrintedWith("Linked", p, ChildNum(p, i)) =>
           issues[ChildNum(p, i)].parent = EpicNum(p)

\* the first child was linked to its epic while the children of the last
\* epic are still under the other epic they started with
C16_Witness ==
  /\ script = "lg" /\ run = "first"
  /\ PrintedWith("Linked", 0, ChildNum(0, 0))
  /\ issues[ChildNum(0, 0)].parent = EpicNum(0)
  /\ issues[ChildNum(NumPhases - 1, Len(Children(NumPhases - 1)) - 1)].parent
       \notin {None, EpicNum(NumPhases - 1)}

\* the body child n has before any linking script touches it
OriginalBody(n) == <<Tok("original_body", n, 0)>>

\* C17: under link_child_to_parent the body of every child is either the
\* body it had or the line "**Parent Epic:** #<epic>", a blank line and the
\* body it had immediately before the edit: the original content stays the
\* end of the body, also when the read of the body failed.
C17_BodyKeptUnderParentLine ==
  script = "lc" =>
    \A p \in Phases : \A i \in 0..(Len(Children(p)) - 1) :
      LET n == ChildNum(p, i)
          b == issues[n].body IN
      /\ b # <<>> /\ b[Len(b)] = Tok("original_body", n, 0)
      /\ run = "first" =>
           b \in {OriginalBody(n), new_body(EpicNum(p), OriginalBody(n))}

\* C18: in a second run of link_child_to_parent with the same phase_map,
\* every child whose edit call of that run succeeded has a body that differs
\* from the one the first run left.
C18_SecondRunChangesEditedBodies ==
  (script = "lc" /\ run = "second") =>
    \A p \in Phases : \A i \in 0..(Len(Children(p)) - 1) :
      PrintedWith("Updated", p, ChildNum(p, i)) =>
        issues[ChildNum(p, i)].body # snap.issues[ChildNum(p, i)].body

\* the id link_issues_graphql holds for issue n is an id of the tracker
Resolved(n) == n \in DOMAIN issue_ids /\ issue_ids[n] # NoId

\* C19: every link mutation of link_issues_graphql is issued for an epic and
\* a child whose ids were both resolved; and when the linking loop has run to
\* its end, the children with a link call are exactly the children with a
\* resolved id under an epic with a resolved id: an unresolved epic loses all
\* its children, an unresolved child only itself, every other pair is
\* attempted.
C19_NoLinkWithoutBothIds ==
  script = "lg" =>
    /\ \A k \in 1..Len(calls) :
         calls[k].op = "addSubIssue" =>
           /\ Resolved(calls[k].arg) /\ Resolved(calls[k].num)
           /\ calls[k].arg = EpicNum(calls[k].ph)
    /\ pc = "done" =>
         \A p \in Phases : \A i \in 0..(Len(Children(p)) - 1) :
           (Resolved(EpicNum(p)) /\ Resolved(ChildNum(p, i)))
             <=> Cardinality(CallsFor("addSubIssue", p, i)) = 1

\* a finished run in which one epic and one child of another epic were not
\* resolved, and the other children of that other epic were linked
C19_Witness ==
  /\ script = "lg" /\ pc = "done"
  /\ \E p \in Phases : \E q \in Phases \ {p} :
       /\ ~Resolved(EpicNum(p))
       /\ \A i \in 0..(Len(Children(p)) - 1) : CallsFor("addSubIssue", p, i) = {}
       /\ Resolved(EpicNum(q))
       /\ ~Resolved(ChildNum(q, 0))
       /\ CallsFor("addSubIssue", q, 0) = {}
       /\ \A i \in 1..(Len(Children(q)) - 1) : CallsFor("addSubIssue", q, i) # {}

\* the logical operation a call stands for: what is done, at which place of
\* the catalog or map, to which issue, with which ids, and for a label
\* addition the label (options of the command line are not part of it)
Operation(c) ==
  <<c.op, c.ph, c.ix, c.num, c.arg, IF c.op \in LabelOps THEN c.label ELSE "">>

\* C20: within one run no two external invocations stand for the same
\* logical operation on the same entity: nothing is retried and nothing is
\* issued twice.
C20_OneInvocationPerOperation ==
  \A k \in 1..Len(calls) : \A j \in 1..Len(calls) :
    Operation(calls[k]) = Operation(calls[j]) => k = j

RECURSIVE SumLen(_)
\* the number of entries of a list of lists
SumLen(vs) == IF vs = <<>> THEN 0 ELSE Len(Head(vs)) + SumLen(Tail(vs))

\* link_issues_graphql.phase_map has 6 keys and 27 children in all
SixEpics27Children == Len(phase_map_keys) = 6 /\ SumLen(phase_map_values) = 27

LookupCalls == {k \in 1..Len(calls) : calls[k].op = "get_issue_id"}

LinkCalls == {k \in 1..Len(calls) : calls[k].op = "addSubIssue"}

\* C21: in link_issues_graphql every id lookup precedes every link mutation,
\* the lookups of the epics precede those of the children, no issue number is
\* looked up twice in a run, and once a link mutation has been issued every
\* epic and child of phase_map (6 epics, 27 children) has been looked up.
C21_LookupsBeforeLinks ==
  script = "lg" =>
    /\ SixEpics27Children
    /\ \A j \in 1..Len(calls) : \A k \in 1..(j - 1) :
         /\ calls[k].op = "addSubIssue" => calls[j].op # "get_issue_id"
         /\ (calls[k].op = "get_issue_id" /\ calls[j].op = "get_issue_id") =>
              /\ calls[k].num # calls[j].num
              /\ calls[j].num \in Range(phase_map_keys) =>
                   calls[k].num \in Range(phase_map_keys)
    /\ LinkCalls # {} => (AllEpics \cup AllChildren) \subseteq DOMAIN issue_ids

\* a finished run that looked up every epic and child once and then linked
\* every child
C21_Witness ==
  /\ script = "lg" /\ run = "first" /\ pc = "done"
  /\ Cardinality(LookupCalls) = Cardinality(AllEpics \cup AllChildren)
  /\ Cardinality(LinkCalls) = Cardinality(AllChildren)

\* the child lists of a map do not overlap and hold no key of the map
DisjointMap(keys, values) ==
  /\ \A a \in 1..Len(values) : \A b \in 1..Len(values) :
       a # b => Range(values[a]) \cap Range(values[b]) = {}
  /\ \A a \in 1..Len(values) :
       /\ Range(values[a]) \cap Range(keys) = {}
       /\ Cardinality(Range(values[a])) = Len(values[a])

\* link_issues_graphql.phase_map: disjoint child lists, 27 children, no
\* epic among them
DisjointChildLists ==
  /\ DisjointMap(phase_map_keys, phase_map_values)
  /\ Cardinality(UNION {Range(phase_map_values[a]) : a \in 1..Len(phase_map_values)}) = 27

\* C22: the child lists of phase_map are pairwise disjoint and hold no epic
\* number, 27 children in all; and when link_issues_graphql has run to its
\* end without a failed call, every child has the epic it is listed under as
\* its one parent.
C22_EveryChildUnderItsEpic ==
  script = "lg" =>
    /\ DisjointChildLists
    /\ (pc = "done" /\ fails = 0) =>
         \A p \in Phases : \A i \in 0..(Len(Children(p)) - 1) :
           /\ issues[ChildNum(p, i)].parent = EpicNum(p)
           /\ \A q \in Phases \ {p} : issues[ChildNum(p, i)].parent # EpicNum(q)

\* a first pass without a failed call has ended with every child linked
C22_Witness ==
  /\ script = "lg" /\ run = "first" /\ pc = "done" /\ fails = 0
  /\ \A p \in Phases : \A i \in 0..(Len(Children(p)) - 1) :
       /\ PrintedWith("Linked", p, ChildNum(p, i))
       /\ issues[ChildNum(p, i)].parent = EpicNum(p)

RECURSIVE MapPairs(_, _, _)
\* the (epic, child) pairs of a map in iteration order, from its k-th key on,
\* for the keys and children a run goes through
MapPairs(keys, values, k) ==
  IF k > NumPhases THEN <<>>
  ELSE [j \in 1..Len(Take(values[k], MaxIssues)) |-> <<keys[k], values[k][j]>>]
         \o MapPairs(keys, values, k + 1)

IsLinkCall(c) == c.op = LinkOp

\* the (epic, child) pairs of the link or edit calls of this run, in order
PairsAttempted ==
  LET cs == SelectSeq(calls, IsLinkCall) IN
  [k \in 1..Len(cs) |-> <<cs[k].arg, cs[k].num>>]

\* the three phase_map literals are equal
SameMaps ==
  /\ lc_phase_map_keys = phase_map_keys /\ lc_phase_map_values = phase_map_values
  /\ lh_phase_map_keys = phase_map_keys /\ lh_phase_map_values = phase_map_values

\* C23: link_child_to_parent, link_issues_graphql and link_issues_hierarchy
\* hold the same phase_map, and a run of any of them that has ended without a
\* failed call has attempted the same (epic, child) pairs in the same order:
\* the pairs of the map of link_issues_graphql in its iteration order.
C23_SamePairsInSameOrder ==
  /\ SameMaps
  /\ (script \in {"lg", "lc", "lh"} /\ run = "first" /\ pc = "done" /\ fails = 0) =>
       PairsAttempted = MapPairs(phase_map_keys, phase_map_values, 1)

\* a run of the PATCH variant without a failed call has ended, having gone
\* through more than one epic and more than one child of an epic
C23_Witness ==
  /\ script = "lh" /\ pc = "done" /\ fails = 0
  /\ Len(PairsAttempted) = Cardinality(AllChildren)
  /\ \E a \in 1..Len(PairsAttempted) : \E b \in 1..Len(PairsAttempted) :
       a < b /\ PairsAttempted[a][1] # PairsAttempted[b][1]
  /\ \E a \in 1..Len(PairsAttempted) : \E b \in 1..Len(PairsAttempted) :
       a < b /\ PairsAttempted[a][1] = PairsAttempted[b][1]

\* the epic under which phase_map of link_issues_graphql lists issue n
ListedUnder(n) ==
  phase_map_keys[CHOOSE a \in 1..Len(phase_map_keys) : n \in Range(phase_map_values[a])]

\* ISSUE_DETAILS has the 27 children of phase_map as its keys and names, for
\* each, the epic that lists it
DetailsMatchMap ==
  /\ DOMAIN ISSUE_DETAILS_epic =
       UNION {Range(phase_map_values[a]) : a \in 1..Len(phase_map_values)}
  /\ Cardinality(DOMAIN ISSUE_DETAILS_epic) = 27
  /\ \A n \in DOMAIN ISSUE_DETAILS_epic : ISSUE_DETAILS_epic[n] = ListedUnder(n)

\* C24: the keys of ISSUE_DETAILS are exactly the 27 children of phase_map,
\* the epic named in the "Parent Epic" line that ends each body is the epic
\* the map lists the issue under, and every issue that populate_issue_descriptions
\* has updated carries that line with that epic.
C24_DetailsNameTheListedEpic ==
  /\ DetailsMatchMap
  /\ script = "pop" =>
       \A p \in Phases : \A i \in 0..(Len(Children(p)) - 1) :
         LET n == ChildNum(p, i) IN
         PrintedWith("Updated", p, n) =>
           /\ issues[n].body = ISSUE_DETAILS(n)
           /\ issues[n].body[Len(issues[n].body)] =
                Tok("**Parent Epic:** #", ListedUnder(n), 0)

\* populate_issue_descriptions has ended with every body written
C24_Witness ==
  /\ script = "pop" /\ pc = "done"
  /\ \A p \in Phases : \A i \in 0..(Len(Children(p)) - 1) :
       /\ PrintedWith("Updated", p, ChildNum(p, i))
       /\ issues[ChildNum(p, i)].body # OriginalBody(ChildNum(p, i))

\* what holds of create_github_issues in every state: it invokes only the
\* listing, issue-create and add-label operations; a phase whose milestone
\* step reported no milestone has no issue call; a reported milestone is the
\* one the tracker holds under the phase title
cgi_LookupOnly ==
  script = "cgi" =>
    /\ \A k \in 1..Len(calls) :
         calls[k].op \in {"list_milestones", "create_issue", "add_label"}
    /\ \A p \in Phases :
         /\ (CallsOf("list_milestones", p) # {} /\ ~Printed("Using existing milestone", p)) =>
              CallsOf("create_issue", p) = {} /\ CallsOf("add_label", p) = {}
         /\ Printed("Using existing milestone", p) =>
              PrintedWith("Using existing milestone", p, milestones[p])

\* what holds of every step of create_github_issues: the milestones of the
\* tracker stay as they are, and the milestone step yields the number held
\* under the phase title or nothing, nothing when its listing failed or was
\* not parseable
cgi_MilestoneStep ==
  script = "cgi" =>
    /\ milestones' = milestones
    /\ (pc = "milestone" /\ pc' # "milestone") \/ (pc = "milestone" /\ ph' # ph) =>
         /\ milestone_num' \in {None, milestones[ph]}
         /\ fails' > fails => milestone_num' = None
         /\ milestone_num' = None => pc' # "issue"

\* C25: create_github_issues never creates or modifies a milestone; its
\* milestone step only looks up the milestone whose title is the phase title
\* and yields no id, so that the phase's issues are skipped, when there is
\* none, the listing fails or the listing cannot be parsed.
C25_MilestoneStepOnlyLooksUp ==
  [](cgi_LookupOnly) /\ [][cgi_MilestoneStep]_vars

\* a finished run that skipped the phase whose milestone is missing and
\* created the issues of another phase under its existing milestone
C25_Witness ==
  /\ script = "cgi" /\ pc = "done"
  /\ \E p \in Phases : \E q \in Phases :
       /\ milestones[p] = None
       /\ CallsOf("list_milestones", p) # {} /\ CallsOf("create_issue", p) = {}
       /\ milestones[q] # None
       /\ \E k \in CallsOf("create_issue", q) : calls[k].arg = milestones[q]

\* the add-label calls for entity (p, i) issued before call k
LabelCallsBefore(k) ==
  {j \in CallsIn(LabelOps, calls[k].ph, calls[k].ix) : j < k}

\* C26: in create_github_issues and create_epics every add-label call targets
\* a tracker number, namely the number of the issue that an earlier create
\* call of the same item created, and the labels of an item are applied one
\* per call in the order given; an item whose create call failed or returned
\* no number has no add-label call.
C26_LabelsOnlyAfterCreateReturnedNumber ==
  script \in {"cgi", "ce"} =>
    \A k \in 1..Len(calls) :
      calls[k].op = "add_label" =>
        /\ calls[k].num # None
        /\ calls[k].num \in Copies(IF script = "cgi" THEN "issue" ELSE "epic",
                                   calls[k].ph, calls[k].ix)
        /\ \E c \in 1..(k - 1) :
             /\ calls[c].op \in CreateOps
             /\ calls[c].ph = calls[k].ph /\ calls[c].ix = calls[k].ix
        /\ calls[k].label = ItemLabels(calls[k])[Cardinality(LabelCallsBefore(k)) + 1]

IsCreateEpic(c) == c.op = "create_epic"

\* the create calls of create_epics, in order
EpicAttempts == SelectSeq(calls, IsCreateEpic)

EpicFailed(p) == Printed("Error", p) \/ Printed("Parse error", p)

\* C27: create_epics has six create_epic calls and attempts them in the order
\* 0 to 5, each with the same arguments whatever happened before; when the
\* script has ended every one of them was attempted; an epic whose creation
\* failed has None as its entry of `epics`, every other entry is None or the
\* number of the epic created for that phase.
C27_AllEpicsAttemptedInOrder ==
  script = "ce" =>
    /\ Len(ce_labels) = 6
    /\ \A k \in 1..Len(EpicAttempts) :
         EpicAttempts[k] = Call("create_epic", k - 1, 0, None, None, "")
    /\ pc = "done" => Len(EpicAttempts) = NumPhases
    /\ \A p \in Phases :
         /\ EpicFailed(p) => epics[p] = None
         /\ epics[p] # None => epics[p] \in Copies("epic", p, 0)

\* a finished run in which the creation of an epic failed and the creation
\* of a later epic succeeded
C27_Witness ==
  /\ script = "ce" /\ pc = "done"
  /\ \E p \in Phases : \E q \in Phases :
       /\ p < q
       /\ EpicFailed(p) /\ epics[p] = None
       /\ epics[q] # None /\ issues[epics[q]].labels = Range(ce_labels[q + 1])

====
